---- MODULE Spec2Model ----
(***************************************************************************)
(* Model of run.py: the benchmark runner workflow.  The main script runs   *)
(* pytest as a child process, streams its output into the logger, fetches  *)
(* CloudWatch metrics for the padded run window, grafts a "custom" section *)
(* into the pytest-benchmark JSON report, renames the report and uploads   *)
(* it to S3.                                                               *)
(*                                                                         *)
(* Time is a discrete clock (now); one minute is Minute clock ticks.       *)
(* Strings that the code takes apart (child output lines, the metadata     *)
(* tool's stdout, file names) are sequences of tokens; "" is <<>>.         *)
(* Python's None / a value is None / Some(v).                              *)
(***************************************************************************)
EXTENDS Integers, Sequences, FiniteSets, TLC

VARIABLES
    pc,                             \* position of the main script
    now,                            \* the wall clock
    metrics_collection_start_time,  \* run.py:95
    metrics_collection_end_time,    \* run.py:148
    current_time,                   \* run.py:139
    childState,                     \* "notstarted" | "running" | "exited"
    childCode,                      \* the exit code of the child, once exited
    childStart,                     \* clock value when the child was launched
    childEnd,                       \* clock value when the child exited
    produced,                       \* every line the child has written so far
    pipe,                           \* lines written and not yet read
    pipeOpen,                       \* the child still holds the write end
    output,                         \* run.py:75, the last readline() result
    return_code,                    \* run.py:146
    log,                            \* the calls the logger has received
    instance_id,                    \* run.py:150
    instance_type,                  \* run.py:151
    response,                       \* run.py:153
    metricsCalls,                   \* calls of get_metric_data_from_ec2_run
    report_file,                    \* benchmarking_results.json on disk
    original,                       \* the document json.load read at run.py:163
    benchmark_data,                 \* run.py:163
    out_file,                       \* the renamed report on disk
    s3,                             \* objects uploaded to the bucket
    exitStatus,                     \* exit status of the workflow process
    steps                           \* the steps of the main script, in order

vars == <<pc, now, metrics_collection_start_time, metrics_collection_end_time,
          current_time, childState, childCode, childStart, childEnd, produced,
          pipe, pipeOpen, output, return_code, log, instance_id,
          instance_type, response, metricsCalls, report_file, original,
          benchmark_data, out_file, s3, exitStatus, steps>>

-----------------------------------------------------------------------------
(* Bounds *)

MaxTime == 2
MaxLines == 2

(* timedelta(minutes=1), in clock ticks *)
Minute == 2

-----------------------------------------------------------------------------
(* Values *)

None == <<>>
Some(v) == <<v>>

Whitespace == {" ", "\n"}

(* str.strip(): drop leading and trailing whitespace *)
RECURSIVE LStrip(_)
LStrip(s) ==
    IF s # <<>> /\ Head(s) \in Whitespace THEN LStrip(Tail(s)) ELSE s

RECURSIVE RStrip(_)
RStrip(s) ==
    IF s # <<>> /\ s[Len(s)] \in Whitespace
    THEN RStrip(SubSeq(s, 1, Len(s) - 1))
    ELSE s

Strip(s) == RStrip(LStrip(s))

(* str.split(": "): the segments between the separator tokens *)
RECURSIVE Split(_)
Split(s) ==
    IF \E i \in 1..Len(s) : s[i] = ": "
    THEN LET i == CHOOSE j \in 1..Len(s) :
                      s[j] = ": " /\ \A k \in 1..(j - 1) : s[k] # ": "
         IN  <<SubSeq(s, 1, i - 1)>> \o Split(SubSeq(s, i + 1, Len(s)))
    ELSE <<s>>

(* f"{x}" of an optional string *)
Str(opt) == IF opt = None THEN <<"None">> ELSE opt[1]

(* datetime.strftime / datetime.isoformat *)
Strftime(t) == <<"T" \o ToString(t)>>
IsoFormat(t) == <<"iso" \o ToString(t)>>

-----------------------------------------------------------------------------
(* JSON.  A document on disk is a sequence of members <<key, value>> with   *)
(* values <<"null">>, <<"string", s>>, <<"number", n>>, <<"object", ms>>.   *)
(* In memory a dict is a sequence of items <<key, value>> in insertion      *)
(* order with values <<"None">>, <<"str", s>>, <<"int", n>>,                *)
(* <<"datetime", t>>, <<"dict", items>>.                                    *)

Keys(d) == {d[i][1] : i \in 1..Len(d)}

(* the dict replaced by the new item alone *)
DictSetItem_clobber(d, k, v) == <<<<k, v>>>>

(* d[k] = v on a dict: replaces the value of an existing key in place,      *)
(* appends a new key                                                        *)
DictSetItem(d, k, v) ==
    IF k \in Keys(d)
    THEN [i \in 1..Len(d) |-> IF d[i][1] = k THEN <<k, v>> ELSE d[i]]
    ELSE Append(d, <<k, v>>)

DictGet(d, k) == d[CHOOSE i \in 1..Len(d) : d[i][1] = k][2]

RECURSIVE json_load(_)
RECURSIVE LoadMembers(_, _)
LoadMembers(ms, acc) ==
    IF ms = <<>> THEN acc
    ELSE LoadMembers(Tail(ms), DictSetItem(acc, Head(ms)[1], json_load(Head(ms)[2])))

json_load(j) ==
    CASE j[1] = "null" -> <<"None">>
      [] j[1] = "string" -> <<"str", j[2]>>
      [] j[1] = "number" -> <<"int", j[2]>>
      [] j[1] = "object" -> <<"dict", LoadMembers(j[2], <<>>)>>

(* the default= hook of json.dump *)
custom_json_serializer(obj) ==
    IF obj[1] = "datetime" THEN <<"str", IsoFormat(obj[2])>> ELSE <<"TypeError">>

RECURSIVE json_dump(_)
json_dump(v) ==
    CASE v[1] = "None" -> <<"null">>
      [] v[1] = "str" -> <<"string", v[2]>>
      [] v[1] = "int" -> <<"number", v[2]>>
      [] v[1] = "dict" ->
            <<"object", [i \in 1..Len(v[2]) |-> <<v[2][i][1], json_dump(v[2][i][2])>>]>>
      [] OTHER -> json_dump(custom_json_serializer(v))

(* an optional string as a Python value *)
PyOpt(opt) == IF opt = None THEN <<"None">> ELSE <<"str", opt[1]>>

-----------------------------------------------------------------------------
(* Inputs *)

(* the lines pytest may write to its combined stdout/stderr *)
Lines == {<<" ", "b", " ", "\n">>, <<"\n">>}

(* exit codes of pytest *)
ExitCodes == {0, 1, 5}

(* reports the benchmark tool may leave in benchmarking_results.json *)
Reports ==
    { <<"object", <<>>>>,
      <<"object", << <<"benchmarks", <<"number", 1>>>> >>>>,
      <<"object", << <<"machine_info", <<"string", <<"x86">>>>>>,
                     <<"benchmarks", <<"number", 2>>>> >>>> }

(* a report an earlier, interrupted run left behind: rewritten at           *)
(* run.py:175, never renamed                                                *)
StaleReport ==
    <<"object", << <<"benchmarks", <<"number", 3>>>>,
                   <<"custom", <<"object", << <<"run_label", <<"string", <<"old">>>>>> >>>>>> >>>>

(* what `ec2-metadata <option>` may do: exit status and stdout *)
MetadataOutcomes(option) ==
    { [rc |-> 0,
       stdout |-> IF option = "-i" THEN <<"instance-id", ": ", "i-0abc", "\n">>
                                   ELSE <<"instance-type", ": ", "m5.large", "\n">>],
      [rc |-> 0, stdout |-> <<>>],
      [rc |-> 1, stdout |-> <<>>] }

(* command-line arguments, run.py:130-138 *)
max_pairs == <<"1e7">>
run_label == <<"nightly">>
output_bucket == <<"bucket">>
output_folder == <<"folder">>

NoFile == [exists |-> FALSE, name |-> <<>>, doc |-> <<"null">>]
File(n, d) == [exists |-> TRUE, name |-> n, doc |-> d]
ReportName == <<"benchmarking_results.json">>

-----------------------------------------------------------------------------
(* Functions of run.py *)

(* get_ec2_metadata, given what subprocess.run(check=True) met *)
get_ec2_metadata(result) ==
    IF result.rc # 0
    THEN None                                   \* CalledProcessError, caught
    ELSE IF result.stdout # <<>>
         THEN Some(Strip(Split(result.stdout)[2]))
         ELSE None

(* process.poll(): None while the child runs, its exit code afterwards *)
poll == IF childState = "exited" THEN Some(childCode) ELSE None

(* readline() returns: a line is buffered, or every writer closed the pipe *)
ReadlineReturns == pipe # <<>> \/ ~pipeOpen

(* the break taken at end of file without asking whether the child exited *)
LoopBreaks_eof_only(out, polled) == out = <<>>

(* the break taken only while the child is still running *)
LoopBreaks_poll_inverted(out, polled) == out = <<>> /\ polled = None

(* run.py:76, the condition of the break *)
LoopBreaks(out, polled) == out = <<>> /\ polled # None

(* the test made on the stripped line: blank lines are not logged *)
LogsLine_stripped(out) == Strip(out) # <<>>

(* run.py:78, the condition of the logger.info call *)
LogsLine(out) == out # <<>>

(* the test of the exit code inverted *)
BenchmarkSucceeded_inverted == return_code # Some(0)

(* run.py:161 *)
BenchmarkSucceeded == return_code = Some(0)

(* the custom section without its run label *)
custom_data_no_label ==
    <<"dict", << <<"instance_id", PyOpt(instance_id)>>,
                 <<"instance_type", PyOpt(instance_type)>>,
                 <<"max_pairs", <<"str", max_pairs>>>>,
                 <<"metrics", response>> >>>>

(* run.py:165-170 *)
custom_data ==
    <<"dict", << <<"instance_id", PyOpt(instance_id)>>,
                 <<"instance_type", PyOpt(instance_type)>>,
                 <<"max_pairs", <<"str", max_pairs>>>>,
                 <<"run_label", <<"str", run_label>>>>,
                 <<"metrics", response>> >>>>

(* the report dumped as it was read, without the custom section *)
DumpedDocument_unmerged == json_dump(json_load(original))

(* run.py:175, what json.dump writes *)
DumpedDocument == json_dump(benchmark_data)

(* run.py:177 *)
benchmark_file_name == <<"benchmarking_results_">> \o Str(instance_id) \o <<".json">>

(* run.py:87 *)
s3_file_path(folder_path, file_name) == folder_path \o <<"/">> \o file_name

(* the start of the window taken without its padding *)
StartTimeAt_unpadded(t) == t

(* run.py:95 and run.py:148 *)
StartTimeAt(t) == t - Minute
EndTimeAt(t) == t + Minute

(* the response of get_metric_data_from_ec2_run for a window *)
MetricData(start, end) ==
    <<"dict", << <<"Timestamps", <<"datetime", start>>>>,
                 <<"Values", <<"int", end - start>>>> >>>>

-----------------------------------------------------------------------------
(* Initial state: the script is about to run its first statement.  A stale *)
(* benchmarking_results.json may be left over in the working directory.    *)

Init ==
    /\ pc = "start"
    /\ now = 0
    /\ metrics_collection_start_time = 0
    /\ metrics_collection_end_time = 0
    /\ current_time = <<>>
    /\ childState = "notstarted"
    /\ childCode = 0
    /\ childStart = 0
    /\ childEnd = 0
    /\ produced = <<>>
    /\ pipe = <<>>
    /\ pipeOpen = FALSE
    /\ output = <<>>
    /\ return_code = None
    /\ log = <<>>
    /\ instance_id = None
    /\ instance_type = None
    /\ response = <<"None">>
    /\ metricsCalls = 0
    /\ report_file \in {NoFile, File(ReportName, StaleReport)}
    /\ original = <<"null">>
    /\ benchmark_data = <<"None">>
    /\ out_file = NoFile
    /\ s3 = <<>>
    /\ exitStatus = None
    /\ steps = <<>>

mainVars == <<pc, metrics_collection_start_time, metrics_collection_end_time,
              current_time, output, return_code, log, instance_id,
              instance_type, response, metricsCalls, original, benchmark_data,
              out_file, s3, exitStatus, steps>>
childVars == <<childState, childCode, childStart, childEnd, produced, pipe, pipeOpen>>

-----------------------------------------------------------------------------
(* The environment: the clock and the child process *)

(* the script reads the clock for the last time at run.py:148; the clock is *)
(* followed until then                                                      *)
ClockIsRead ==
    pc \in {"start", "setup", "popen", "readline", "test", "return", "end_time"}

Tick ==
    /\ now < MaxTime
    /\ ClockIsRead
    /\ now' = now + 1
    /\ UNCHANGED <<mainVars, childVars, report_file>>

(* pytest writes one line to its combined stdout/stderr *)
ChildWrite ==
    /\ childState = "running"
    /\ pipeOpen
    /\ Len(produced) < MaxLines
    /\ \E l \in Lines :
          /\ produced' = Append(produced, l)
          /\ pipe' = Append(pipe, l)
    /\ UNCHANGED <<mainVars, now, report_file, childState, childCode, childStart,
                   childEnd, pipeOpen>>

(* pytest-benchmark writes --benchmark-json benchmarking_results.json *)
ChildWriteReport ==
    /\ childState = "running"
    /\ \E r \in Reports : report_file' = File(ReportName, r)
    /\ UNCHANGED <<mainVars, now, childVars>>

(* the child closes its stdout/stderr before it exits *)
ChildCloseStdout ==
    /\ childState = "running"
    /\ pipeOpen
    /\ pipeOpen' = FALSE
    /\ UNCHANGED <<mainVars, now, report_file, childState, childCode, childStart,
                   childEnd, produced, pipe>>

(* the child exits, some time after it was launched; its descriptors close *)
ChildExit ==
    /\ childState = "running"
    /\ now > childStart
    /\ \E c \in ExitCodes : childCode' = c
    /\ childState' = "exited"
    /\ childEnd' = now
    /\ pipeOpen' = FALSE
    /\ UNCHANGED <<mainVars, now, report_file, childStart, produced, pipe>>

-----------------------------------------------------------------------------
(* The main script, one action per statement or block *)

Raise == pc' = "crashed" /\ exitStatus' = Some(1)

(* run.py:95 *)
CaptureStartTime ==
    /\ pc = "start"
    /\ metrics_collection_start_time' = StartTimeAt(now)
    /\ pc' = "setup"
    /\ steps' = Append(steps, "start_time")
    /\ UNCHANGED <<original, now, metrics_collection_end_time, current_time,
                   childState, childCode, childStart, childEnd, produced,
                   pipe, pipeOpen, output, return_code, log, instance_id,
                   instance_type, response, metricsCalls, report_file,
                   benchmark_data, out_file, s3, exitStatus>>

(* run.py:97-143: arguments, current_time, CloudWatch client, logger *)
Setup ==
    /\ pc = "setup"
    /\ current_time' = Strftime(now)
    /\ pc' = "popen"
    /\ steps' = Append(steps, "setup")
    /\ UNCHANGED <<original, now, metrics_collection_start_time,
                   metrics_collection_end_time, childState, childCode,
                   childStart, childEnd, produced, pipe, pipeOpen, output,
                   return_code, log, instance_id, instance_type, response,
                   metricsCalls, report_file, benchmark_data, out_file, s3,
                   exitStatus>>

(* run.py:70-72: the child is launched with a pipe on stdout/stderr *)
Popen ==
    /\ pc = "popen"
    /\ childState' = "running"
    /\ childStart' = now
    /\ pipeOpen' = TRUE
    /\ pc' = "readline"
    /\ steps' = Append(steps, "popen")
    /\ UNCHANGED <<original, now, metrics_collection_start_time,
                   metrics_collection_end_time, current_time, childCode,
                   childEnd, produced, pipe, output, return_code, log,
                   instance_id, instance_type, response, metricsCalls,
                   report_file, benchmark_data, out_file, s3, exitStatus>>

(* run.py:75: blocks until a line is buffered or end of file *)
Readline ==
    /\ pc = "readline"
    /\ ReadlineReturns
    /\ output' = IF pipe # <<>> THEN Head(pipe) ELSE <<>>
    /\ pipe' = IF pipe # <<>> THEN Tail(pipe) ELSE pipe
    /\ pc' = "test"
    /\ UNCHANGED <<original, now, metrics_collection_start_time,
                   metrics_collection_end_time, current_time, childState,
                   childCode, childStart, childEnd, produced, pipeOpen,
                   return_code, log, instance_id, instance_type, response,
                   metricsCalls, report_file, benchmark_data, out_file, s3,
                   exitStatus, steps>>

(* run.py:76-79: break, or log the line and go round again *)
LoopTest ==
    /\ pc = "test"
    /\ IF LoopBreaks(output, poll)
       THEN /\ pc' = "return"
            /\ log' = log
       ELSE /\ pc' = "readline"
            /\ log' = IF LogsLine(output)
                      THEN Append(log, <<"info", Strip(output)>>)
                      ELSE log
    /\ UNCHANGED <<original, now, metrics_collection_start_time,
                   metrics_collection_end_time, current_time, childState,
                   childCode, childStart, childEnd, produced, pipe, pipeOpen,
                   output, return_code, instance_id, instance_type, response,
                   metricsCalls, report_file, benchmark_data, out_file, s3,
                   exitStatus, steps>>

(* run.py:81-82 and run.py:146 *)
Return ==
    /\ pc = "return"
    /\ return_code' = poll
    /\ pc' = "end_time"
    /\ steps' = Append(steps, "return")
    /\ UNCHANGED <<original, now, metrics_collection_start_time,
                   metrics_collection_end_time, current_time, childState,
                   childCode, childStart, childEnd, produced, pipe, pipeOpen,
                   output, log, instance_id, instance_type, response,
                   metricsCalls, report_file, benchmark_data, out_file, s3,
                   exitStatus>>

(* run.py:148 *)
CaptureEndTime ==
    /\ pc = "end_time"
    /\ metrics_collection_end_time' = EndTimeAt(now)
    /\ pc' = "instance_id"
    /\ steps' = Append(steps, "end_time")
    /\ UNCHANGED <<original, now, metrics_collection_start_time, current_time,
                   childState, childCode, childStart, childEnd, produced,
                   pipe, pipeOpen, output, return_code, log, instance_id,
                   instance_type, response, metricsCalls, report_file,
                   benchmark_data, out_file, s3, exitStatus>>

(* run.py:150 *)
GetInstanceId ==
    /\ pc = "instance_id"
    /\ \E result \in MetadataOutcomes("-i") :
          instance_id' = get_ec2_metadata(result)
    /\ pc' = "instance_type"
    /\ steps' = Append(steps, "instance_id")
    /\ UNCHANGED <<original, now, metrics_collection_start_time,
                   metrics_collection_end_time, current_time, childState,
                   childCode, childStart, childEnd, produced, pipe, pipeOpen,
                   output, return_code, log, instance_type, response,
                   metricsCalls, report_file, benchmark_data, out_file, s3,
                   exitStatus>>

(* run.py:151 *)
GetInstanceType ==
    /\ pc = "instance_type"
    /\ \E result \in MetadataOutcomes("-t") :
          instance_type' = get_ec2_metadata(result)
    /\ pc' = "metrics"
    /\ steps' = Append(steps, "instance_type")
    /\ UNCHANGED <<original, now, metrics_collection_start_time,
                   metrics_collection_end_time, current_time, childState,
                   childCode, childStart, childEnd, produced, pipe, pipeOpen,
                   output, return_code, log, instance_id, response,
                   metricsCalls, report_file, benchmark_data, out_file, s3,
                   exitStatus>>

(* run.py:153-159: the query answers, or raises *)
GetMetricData ==
    /\ pc = "metrics"
    /\ metricsCalls' = metricsCalls + 1
    /\ steps' = Append(steps, "metrics")
    /\ \/ /\ response' = MetricData(metrics_collection_start_time,
                                    metrics_collection_end_time)
          /\ pc' = "branch"
          /\ exitStatus' = exitStatus
       \/ /\ response' = response
          /\ Raise
    /\ UNCHANGED <<original, now, metrics_collection_start_time,
                   metrics_collection_end_time, current_time, childState,
                   childCode, childStart, childEnd, produced, pipe, pipeOpen,
                   output, return_code, log, instance_id, instance_type,
                   report_file, benchmark_data, out_file, s3>>

(* run.py:161-163: open() raises when the report is missing *)
LoadReport ==
    /\ pc = "branch"
    /\ BenchmarkSucceeded
    /\ steps' = Append(steps, "load")
    /\ IF report_file.exists
       THEN /\ original' = report_file.doc
            /\ benchmark_data' = json_load(report_file.doc)
            /\ pc' = "assemble"
            /\ exitStatus' = exitStatus
       ELSE /\ original' = original
            /\ benchmark_data' = benchmark_data
            /\ Raise
    /\ UNCHANGED <<now, metrics_collection_start_time,
                   metrics_collection_end_time, current_time, childState,
                   childCode, childStart, childEnd, produced, pipe, pipeOpen,
                   output, return_code, log, instance_id, instance_type,
                   response, metricsCalls, report_file, out_file, s3>>

(* run.py:165-172 *)
Assemble ==
    /\ pc = "assemble"
    /\ benchmark_data' = <<"dict", DictSetItem(benchmark_data[2], "custom", custom_data)>>
    /\ pc' = "dump"
    /\ steps' = Append(steps, "assemble")
    /\ UNCHANGED <<original, now, metrics_collection_start_time,
                   metrics_collection_end_time, current_time, childState,
                   childCode, childStart, childEnd, produced, pipe, pipeOpen,
                   output, return_code, log, instance_id, instance_type,
                   response, metricsCalls, report_file, out_file, s3,
                   exitStatus>>

(* run.py:174-175 *)
DumpReport ==
    /\ pc = "dump"
    /\ report_file' = File(ReportName, DumpedDocument)
    /\ pc' = "rename"
    /\ steps' = Append(steps, "dump")
    /\ UNCHANGED <<original, now, metrics_collection_start_time,
                   metrics_collection_end_time, current_time, childState,
                   childCode, childStart, childEnd, produced, pipe, pipeOpen,
                   output, return_code, log, instance_id, instance_type,
                   response, metricsCalls, benchmark_data, out_file, s3,
                   exitStatus>>

(* run.py:177-180 *)
Rename ==
    /\ pc = "rename"
    /\ out_file' = File(benchmark_file_name, report_file.doc)
    /\ report_file' = NoFile
    /\ pc' = "upload"
    /\ steps' = Append(steps, "rename")
    /\ UNCHANGED <<original, now, metrics_collection_start_time,
                   metrics_collection_end_time, current_time, childState,
                   childCode, childStart, childEnd, produced, pipe, pipeOpen,
                   output, return_code, log, instance_id, instance_type,
                   response, metricsCalls, benchmark_data, s3, exitStatus>>

(* run.py:183-189, upload_file_to_s3: the upload succeeds, or raises *)
Upload ==
    /\ pc = "upload"
    /\ steps' = Append(steps, "upload")
    /\ \/ /\ s3' = Append(s3, [bucket |-> output_bucket,
                               key |-> s3_file_path(output_folder, out_file.name),
                               body |-> out_file.doc])
          /\ log' = Append(log, <<"info", <<"File '">> \o out_file.name
                                   \o <<"' uploaded to '">>
                                   \o s3_file_path(output_folder, out_file.name)
                                   \o <<"' in bucket '">> \o output_bucket \o <<"'.">>>>)
          /\ pc' = "done"
          /\ exitStatus' = Some(0)
       \/ /\ s3' = s3
          /\ log' = log
          /\ Raise
    /\ UNCHANGED <<original, now, metrics_collection_start_time,
                   metrics_collection_end_time, current_time, childState,
                   childCode, childStart, childEnd, produced, pipe, pipeOpen,
                   output, return_code, instance_id, instance_type, response,
                   metricsCalls, report_file, benchmark_data, out_file>>

(* run.py:191-192: the script ends after the error is logged *)
LogError ==
    /\ pc = "branch"
    /\ ~BenchmarkSucceeded
    /\ log' = Append(log, <<"error", <<"pytest benchmark command failed.">>>>)
    /\ pc' = "done"
    /\ exitStatus' = Some(0)
    /\ steps' = Append(steps, "log_error")
    /\ UNCHANGED <<original, now, metrics_collection_start_time,
                   metrics_collection_end_time, current_time, childState,
                   childCode, childStart, childEnd, produced, pipe, pipeOpen,
                   output, return_code, instance_id, instance_type, response,
                   metricsCalls, report_file, benchmark_data, out_file, s3>>

-----------------------------------------------------------------------------

Next ==
    \/ Tick
    \/ ChildWrite
    \/ ChildWriteReport
    \/ ChildCloseStdout
    \/ ChildExit
    \/ CaptureStartTime
    \/ Setup
    \/ Popen
    \/ Readline
    \/ LoopTest
    \/ Return
    \/ CaptureEndTime
    \/ GetInstanceId
    \/ GetInstanceType
    \/ GetMetricData
    \/ LoadReport
    \/ Assemble
    \/ DumpReport
    \/ Rename
    \/ Upload
    \/ LogError

Spec == Init /\ [][Next]_vars

(* The interpreter keeps running the main script: each of its statements is *)
(* eventually executed once it can be.  Nothing is assumed of the child.    *)
Main ==
    \/ CaptureStartTime \/ Setup \/ Popen \/ Readline \/ LoopTest \/ Return
    \/ CaptureEndTime \/ GetInstanceId \/ GetInstanceType \/ GetMetricData
    \/ LoadReport \/ Assemble \/ DumpReport \/ Rename \/ Upload \/ LogError

FairSpec == Init /\ [][Next]_vars /\ WF_vars(Main)

-----------------------------------------------------------------------------
(* Properties *)

Terminated == pc \in {"done", "crashed"}
ChildFailed == return_code # None /\ return_code # Some(0)
JsonKeys(doc) == Keys(doc[2])
JsonGet(doc, k) == DictGet(doc[2], k)
InfoOf(line) == <<"info", Strip(line)>>
Occurs(label) == \E i \in 1..Len(steps) : steps[i] = label
IsPrefix(a, b) == Len(a) <= Len(b) /\ a = SubSeq(b, 1, Len(a))
CustomFields == {"instance_id", "instance_type", "max_pairs", "run_label", "metrics"}

C2_Original ==
    \A i \in 1..Len(s3) :
        /\ JsonKeys(s3[i].body) = JsonKeys(original) \cup {"custom"}
        /\ Cardinality(JsonKeys(s3[i].body)) = Cardinality(JsonKeys(original)) + 1
        /\ JsonKeys(JsonGet(s3[i].body, "custom")) = CustomFields

(* C2, amended: the uploaded artifact's keys are the original report's keys *)
(* together with "custom" (one more key when the original had no "custom"   *)
(* key, the same keys when it had), and the object under "custom" has       *)
(* exactly the five fields.                                                 *)
C2_Amended ==
    \A i \in 1..Len(s3) :
        /\ JsonKeys(s3[i].body) = JsonKeys(original) \cup {"custom"}
        /\ Cardinality(JsonKeys(s3[i].body)) =
              Cardinality(JsonKeys(original))
                + (IF "custom" \in JsonKeys(original) THEN 0 ELSE 1)
        /\ JsonGet(s3[i].body, "custom")[1] = "object"
        /\ JsonKeys(JsonGet(s3[i].body, "custom")) = CustomFields
        /\ Len(JsonGet(s3[i].body, "custom")[2]) = Cardinality(CustomFields)

C2_Witness ==
    /\ return_code = Some(0)
    /\ Len(s3) = 1
    /\ "custom" \in JsonKeys(original)

(* C3: the logger.info calls of the read loop are, one for one and in the   *)
(* same order, the lines the child produced: while the loop runs exactly    *)
(* the lines read so far have been logged, and when it ends every line has. *)
C3_LinesLoggedInOrder ==
    LET read == Len(produced) - Len(pipe)
                  - (IF pc = "test" /\ output # <<>> THEN 1 ELSE 0)
    IN  /\ pc \in {"readline", "test"} =>
              log = [i \in 1..read |-> InfoOf(produced[i])]
        /\ pc = "test" /\ output # <<>> => output = produced[read + 1]
        /\ pc = "return" =>
              log = [i \in 1..Len(produced) |-> InfoOf(produced[i])]
        /\ Occurs("return") =>
              /\ Len(log) \in {Len(produced), Len(produced) + 1}
              /\ SubSeq(log, 1, Len(produced))
                    = [i \in 1..Len(produced) |-> InfoOf(produced[i])]

C3_Witness ==
    /\ pc = "return"
    /\ Len(produced) = 2
    /\ produced[1] = <<"\n">>
    /\ produced[2] = <<" ", "b", " ", "\n">>
    /\ log = << <<"info", <<>>>>, <<"info", <<"b">>>> >>

(* C4: once the child has exited, the read loop eventually ends.            *)
C4_LoopTerminates ==
    (childState = "exited") ~> (pc \notin {"readline", "test"})

(* the child wrote nothing and has exited, and the loop has ended *)
C4_Witness ==
    /\ pc = "return"
    /\ childState = "exited"
    /\ produced = <<>>
    /\ log = <<>>

(* C5: when no instance identifier was obtained, the renamed report carries *)
(* the timestamp in its name.                                               *)
C5_TimestampFallback ==
    (out_file.exists /\ instance_id = None) =>
        out_file.name = <<"benchmarking_results_">> \o current_time \o <<".json">>

(* C6, as stated: start < child start < child end < end, with exactly one   *)
(* minute between start and the launch and between the exit and end.        *)
C6_Original ==
    metricsCalls > 0 =>
        /\ metrics_collection_start_time < childStart
        /\ childStart < childEnd
        /\ childEnd < metrics_collection_end_time
        /\ childStart - metrics_collection_start_time = Minute
        /\ metrics_collection_end_time - childEnd = Minute

(* C6, amended: start < child start < child end < end, with at least one    *)
(* minute between start and the launch and between the exit and end.        *)
C6_Amended ==
    metricsCalls > 0 =>
        /\ metrics_collection_start_time < childStart
        /\ childStart < childEnd
        /\ childEnd < metrics_collection_end_time
        /\ childStart - metrics_collection_start_time >= Minute
        /\ metrics_collection_end_time - childEnd >= Minute
        /\ response # <<"None">> =>
              response = MetricData(metrics_collection_start_time,
                                    metrics_collection_end_time)

(* the script spent time between run.py:95 and the launch of the child *)
C6_Witness ==
    /\ metricsCalls = 1
    /\ response # <<"None">>
    /\ childStart - metrics_collection_start_time > Minute
    /\ metrics_collection_end_time - childEnd >= Minute

(* C7: the workflow's exit status is 0 exactly when the child exited 0 and  *)
(* the artifact was uploaded.                                               *)
C7_ExitStatus ==
    Terminated =>
        (exitStatus = Some(0) <=> (return_code = Some(0) /\ Len(s3) = 1))

(* C8: the rewritten report has, for every top-level key of the original    *)
(* other than "custom", that key with the same value, and no other key but  *)
(* "custom" is added or removed.                                            *)
C8_Frame ==
    LET Kept(doc) ==
            /\ JsonKeys(doc) \ {"custom"} = JsonKeys(original) \ {"custom"}
            /\ \A k \in JsonKeys(original) \ {"custom"} :
                  JsonGet(doc, k) = JsonGet(original, k)
            /\ Len(doc[2]) = Cardinality(JsonKeys(doc))
    IN  /\ pc = "rename" => Kept(report_file.doc)
        /\ out_file.exists => Kept(out_file.doc)
        /\ \A i \in 1..Len(s3) : Kept(s3[i].body)

C8_Witness ==
    /\ out_file.exists
    /\ JsonKeys(original) = {"machine_info", "benchmarks"}
    /\ JsonKeys(out_file.doc) = {"machine_info", "benchmarks", "custom"}

(* C9: run_pytest_benchmark returns only after the child has terminated,    *)
(* and what it returns is the child's exit code, never None.                *)
C9_ReturnsExitCode ==
    /\ pc = "return" => childState = "exited"
    /\ Occurs("return") =>
          /\ childState = "exited"
          /\ return_code # None
          /\ return_code = Some(childCode)

C9_Witness ==
    /\ pc = "end_time"
    /\ return_code = Some(5)
    /\ produced # <<>>

SuccessPath ==
    <<"start_time", "setup", "popen", "return", "end_time", "instance_id",
      "instance_type", "metrics", "load", "assemble", "dump", "rename", "upload">>
FailurePath ==
    <<"start_time", "setup", "popen", "return", "end_time", "instance_id",
      "instance_type", "metrics", "log_error">>

(* C10: the steps run strictly forward: the metrics query comes after the   *)
(* child's termination and both identity lookups; on exit 0 the report is   *)
(* read, rewritten with the custom section and renamed before the one       *)
(* upload; on a non-zero exit the error is logged and nothing else runs.    *)
C10_ForwardFlow ==
    /\ IsPrefix(steps, SuccessPath) \/ IsPrefix(steps, FailurePath)
    /\ metricsCalls > 0 => Occurs("metrics") /\ childState = "exited"
    /\ Occurs("load") => return_code = Some(0)
    /\ pc = "upload" =>
          /\ out_file.exists
          /\ ~report_file.exists
          /\ "custom" \in JsonKeys(out_file.doc)
          /\ s3 = <<>>
    /\ Len(s3) <= 1
    /\ \A i \in 1..Len(s3) :
          /\ "custom" \in JsonKeys(s3[i].body)
          /\ JsonGet(s3[i].body, "custom") = json_dump(custom_data)
          /\ s3[i].body = out_file.doc
    /\ Occurs("log_error") =>
          /\ ChildFailed
          /\ pc = "done"
          /\ log[Len(log)] = <<"error", <<"pytest benchmark command failed.">>>>

C10_Witness ==
    /\ pc = "done"
    /\ steps = SuccessPath
    /\ Len(s3) = 1

====
